---- MODULE Spec2Model ----
(***************************************************************************)
(* Model of the primer-checkout integration layer: the retry-with-backoff  *)
(* executor, the session-create and charge handlers that wrap it, and the  *)
(* webhook receiver with its signature verifier, for both deployment       *)
(* targets (the long-running express server and the per-route functions).  *)
(***************************************************************************)
EXTENDS Integers, Sequences, FiniteSets, TLC

VARIABLES
    rx,       \* one run of retryWithBackoff over a scripted unit of work
    fnPlan,   \* the script of that unit of work: how often it fails, what it returns
    config,   \* process configuration, read once at startup
    h,        \* the session-create / charge request being handled
    proc,     \* the payment processor as seen through the charge endpoint
    wh,       \* the webhook request last received and the answer it got
    limiter,  \* the rate limiters' count of one client's requests in the window
    served    \* how the request before the current one ended: "none", "ok", "failed"

vars == <<rx, fnPlan, config, h, proc, wh, limiter, served>>

\* ------------------------------------------------------------------ bounds
MaxRetriesBound == 4      \* largest maxRetries the executor is run with
MaxFailBound == 4         \* largest number of leading failures of a unit of work

\* ------------------------------------------------------- program constants
DefaultMaxRetries == 3
DefaultBaseDelay == 1000
ChargeMaxRetries == 3

\* ------------------------------------------------------------------------
\* retryWithBackoff(fn, maxRetries = 3, baseDelay = 1000)
\* ------------------------------------------------------------------------
RECURSIVE Pow2(_)
Pow2(n) == IF n = 0 THEN 1 ELSE 2 * Pow2(n - 1)

NoResult == [kind |-> "none"]

\* Mutant of the loop test: a do-while loop, whose body runs at least once.
LoopTest_AtLeastOnce(attempt, maxRetries) ==
    IF attempt < maxRetries \/ attempt = 0 THEN "call" ELSE "resolved"

\* for (let attempt = 0; attempt < maxRetries; attempt++): the loop test, taken on
\* entry and after every wait.  Falling out of the loop resolves with undefined.
LoopTest(attempt, maxRetries) ==
    IF attempt < maxRetries THEN "call" ELSE "resolved"

RetryStart(maxRetries, baseDelay) ==
    [maxRetries |-> maxRetries,
     baseDelay  |-> baseDelay,
     attempt    |-> 0,
     pc         |-> LoopTest(0, maxRetries),
     calls      |-> 0,
     delay      |-> 0,
     waits      |-> <<>>,
     result     |-> NoResult]

\* return await fn();   -- fn resolved with v
FnReturned(r, v) ==
    [r EXCEPT !.calls = @ + 1,
              !.pc = "returned",
              !.result = [kind |-> "value", v |-> v]]

\* Mutants of the last-attempt test: giving up one attempt early, and comparing
\* against maxRetries itself (so the last failure is waited on and swallowed).
IsLastAttempt_GivesUpEarly(r) == r.attempt = r.maxRetries - 2
IsLastAttempt_ComparesMax(r) == r.attempt = r.maxRetries

\* if (attempt === maxRetries - 1) throw error;
IsLastAttempt(r) == r.attempt = r.maxRetries - 1

\* Mutant of the delay: the exponent counts attempts from one.
BackoffDelay_OneBased(r) == r.baseDelay * Pow2(r.attempt + 1)

\* const delay = baseDelay * Math.pow(2, attempt);
BackoffDelay(r) == r.baseDelay * Pow2(r.attempt)

\* Mutant of the catch: the next attempt follows the failure at once.
FnThrew_NoWait(r, e) ==
    IF IsLastAttempt(r)
    THEN [r EXCEPT !.calls = @ + 1,
                   !.pc = "thrown",
                   !.result = [kind |-> "error", e |-> e]]
    ELSE [r EXCEPT !.calls = @ + 1,
                   !.attempt = @ + 1,
                   !.pc = LoopTest(r.attempt + 1, r.maxRetries)]

\* catch (error) { ... }   -- fn rejected with e
FnThrew(r, e) ==
    IF IsLastAttempt(r)
    THEN [r EXCEPT !.calls = @ + 1,
                   !.pc = "thrown",
                   !.result = [kind |-> "error", e |-> e]]
    ELSE [r EXCEPT !.calls = @ + 1,
                   !.pc = "wait",
                   !.delay = BackoffDelay(r)]

\* await new Promise(resolve => setTimeout(resolve, delay)); attempt++
TimerFired(r) ==
    [r EXCEPT !.waits = Append(@, r.delay),
              !.delay = 0,
              !.attempt = @ + 1,
              !.pc = LoopTest(r.attempt + 1, r.maxRetries)]

RetryDone(r) == r.pc \in {"returned", "thrown", "resolved"}

\* ------------------------------------------------------------------------
\* The executor on its own, over a scripted unit of work: the work fails its
\* first fnPlan.k invocations (every invocation when fnPlan.always) and
\* returns fnPlan.val otherwise.  The failure of invocation n is [id |-> n].
\* ------------------------------------------------------------------------
BaseDelays == {1, 1000}
WorkValues == {"r1", "r2"}

IdleRetry == RetryStart(0, 0)
IdlePlan == [k |-> 0, always |-> FALSE, val |-> "r1"]
EmptyRec == [f \in {} |-> TRUE]

IdleConfig ==
    [apiKey |-> "sk_live", nodeEnv |-> "development",
     webhookSecret |-> "", verifyWebhooks |-> "unset"]
IdleHandler ==
    [pc |-> "idle", endpoint |-> "none", target |-> "none", body |-> EmptyRec,
     payload |-> EmptyRec, rt |-> IdleRetry, inflight |-> 0, silent |-> FALSE,
     outbound |-> 0, sent |-> <<>>,
     log |-> <<>>, keys |-> <<>>, resp |-> [status |-> 0, fields |-> {}]]
IdleProc == [keys |-> {}, payments |-> 0]
IdleWebhook ==
    [pc |-> "idle", target |-> "none", ctype |-> "none",
     text |-> [form |-> "malformed", spaced |-> FALSE, ev |-> EmptyRec],
     sig |-> [present |-> FALSE, chars |-> <<>>],
     verdict |-> "none", parsed |-> FALSE, handler |-> "none",
     resp |-> [status |-> 0, fields |-> {}]]

IdleLimiter ==
    [route |-> "none", target |-> "none", body |-> EmptyRec,
     answer |-> [kind |-> "none", status |-> 0], hits |-> 0, first |-> 0]

WorkFails(plan, n) == plan.always \/ n <= plan.k

InitRetry ==
    /\ \E m \in -1..MaxRetriesBound, d \in BaseDelays : rx = RetryStart(m, d)
    /\ fnPlan \in [k : 0..MaxFailBound, always : BOOLEAN, val : WorkValues]
    /\ config = IdleConfig
    /\ h = IdleHandler
    /\ proc = IdleProc
    /\ wh = IdleWebhook
    /\ limiter = IdleLimiter
    /\ served = "none"

RxFnReturns ==
    /\ rx.pc = "call"
    /\ ~WorkFails(fnPlan, rx.calls + 1)
    /\ rx' = FnReturned(rx, fnPlan.val)
    /\ UNCHANGED <<fnPlan, config, h, proc, wh, limiter, served>>

RxFnThrows ==
    /\ rx.pc = "call"
    /\ WorkFails(fnPlan, rx.calls + 1)
    /\ rx' = FnThrew(rx, [id |-> rx.calls + 1])
    /\ UNCHANGED <<fnPlan, config, h, proc, wh, limiter, served>>

RxTimer ==
    /\ rx.pc = "wait"
    /\ rx' = TimerFired(rx)
    /\ UNCHANGED <<fnPlan, config, h, proc, wh, limiter, served>>

NextRetry == RxFnReturns \/ RxFnThrows \/ RxTimer

SpecRetry == InitRetry /\ [][NextRetry]_vars

\* C1: a unit of work that fails exactly K times and then succeeds, run with
\* maxRetries >= K+1, makes the executor return the work's success result after
\* exactly K+1 invocations (and never more than K+1 at any moment of the run).
C1_ReturnsAfterKFailures ==
    (~fnPlan.always /\ rx.maxRetries >= fnPlan.k + 1) =>
        /\ rx.calls <= fnPlan.k + 1
        /\ RetryDone(rx) =>
            /\ rx.pc = "returned"
            /\ rx.result = [kind |-> "value", v |-> fnPlan.val]
            /\ rx.calls = fnPlan.k + 1

C1_Witness ==
    /\ ~fnPlan.always /\ fnPlan.k = 2 /\ rx.maxRetries = 3
    /\ rx.pc = "returned" /\ rx.calls = 3

\* C2: a unit of work that always fails, run with maxRetries = M >= 1, is
\* invoked exactly M times and the executor raises the failure of the M-th
\* invocation.
C2_RaisesLastFailure ==
    (fnPlan.always /\ rx.maxRetries >= 1) =>
        /\ rx.calls <= rx.maxRetries
        /\ RetryDone(rx) =>
            /\ rx.pc = "thrown"
            /\ rx.calls = rx.maxRetries
            /\ rx.result = [kind |-> "error", e |-> [id |-> rx.maxRetries]]

C2_Witness ==
    /\ fnPlan.always /\ rx.maxRetries = 3
    /\ rx.pc = "thrown" /\ rx.calls = 3 /\ rx.result.e.id = 3

RECURSIVE SumSeq(_)
SumSeq(s) == IF s = <<>> THEN 0 ELSE s[1] + SumSeq(Tail(s))

\* C22: the wait before attempt i (1-indexed, i >= 2) is exactly
\* baseDelay * 2^(i-2), with no jitter; no wait follows the final failed
\* attempt; two failures then a success under the default base delay wait 1000
\* then 2000; M consecutive failures wait baseDelay * (2^(M-1) - 1) in total.
C22_BackoffSchedule ==
    /\ \A i \in 2..(Len(rx.waits) + 1) :
            rx.waits[i - 1] = rx.baseDelay * Pow2(i - 2)
    /\ rx.pc = "wait" => rx.delay = rx.baseDelay * Pow2(rx.calls - 1)
    /\ (RetryDone(rx) /\ rx.calls >= 1) =>
            /\ Len(rx.waits) = rx.calls - 1
            /\ rx.delay = 0
    /\ (rx.pc = "returned" /\ rx.calls = 3 /\ rx.baseDelay = DefaultBaseDelay) =>
            rx.waits = <<1000, 2000>>
    /\ rx.pc = "thrown" =>
            SumSeq(rx.waits) = rx.baseDelay * (Pow2(rx.maxRetries - 1) - 1)

C22_Witness ==
    /\ ~fnPlan.always /\ fnPlan.k = 2 /\ rx.maxRetries = DefaultMaxRetries
    /\ rx.baseDelay = DefaultBaseDelay
    /\ rx.pc = "returned" /\ rx.waits = <<1000, 2000>>

\* C30: with a maximum attempt count of 0 (or a negative one) the executor
\* never invokes the work, waits for nothing, raises no failure and resolves
\* with no value; with a count of 1 it invokes the work once and never waits.
C30_ZeroAttemptsResolveEmpty ==
    /\ rx.maxRetries <= 0 =>
            /\ rx.pc = "resolved" /\ rx.calls = 0
            /\ rx.waits = <<>> /\ rx.delay = 0
            /\ rx.result = NoResult
    /\ rx.maxRetries = 1 =>
            /\ rx.calls <= 1 /\ rx.pc # "wait" /\ rx.waits = <<>>
            /\ RetryDone(rx) => rx.calls = 1

C30_Witness ==
    /\ rx.maxRetries = 0 /\ rx.pc = "resolved"
    /\ rx.calls = 0 /\ rx.result = NoResult

\* ------------------------------------------------------------------------
\* Request bodies and their validation (Joi schemas).  A body is a record
\* holding only the fields the caller sent.
\* ------------------------------------------------------------------------
MaxAmount == 9999999
DefaultAmount == 4999
Currencies == {"GBP", "USD", "EUR", "JPY"}

Has(r, f) == f \in DOMAIN r
Opt(f, vals) == {EmptyRec} \cup {f :> v : v \in vals}

Amounts == {-5, 1000, MaxAmount + 1}

SessionBodies ==
    {a @@ c @@ o @@ cc :
        a \in Opt("amount", Amounts),
        c \in Opt("currency", {"GBP", "XXX"}),
        o \in Opt("orderId", {"ORD-1"}),
        cc \in Opt("currencyCode", {"USD"})}

ChargeBodies ==
    {t @@ a @@ cc :
        t \in Opt("paymentMethodToken", {"tok_1"}),
        a \in Opt("amount", Amounts),
        cc \in Opt("currencyCode", {"GBP", "XXX"})}

\* Mutant of the amount rule: the positive() test is missing.
AmountErrors_MaxOnly(b) ==
    IF Has(b, "amount") /\ b.amount > MaxAmount
    THEN <<"\"amount\" must be less than or equal to 9999999">>
    ELSE <<>>

\* Joi.number().positive().max(9999999)
AmountErrors(b) ==
    IF ~Has(b, "amount") THEN <<>>
    ELSE IF b.amount <= 0 THEN <<"\"amount\" must be a positive number">>
    ELSE IF b.amount > MaxAmount
         THEN <<"\"amount\" must be less than or equal to 9999999">>
    ELSE <<>>

\* Joi.string().length(3).uppercase().valid('GBP', 'USD', 'EUR', 'JPY')
CurrencyErrors(b, f) ==
    IF Has(b, f) /\ b[f] \notin Currencies
    THEN <<"\"" \o f \o "\" must be one of [GBP, USD, EUR, JPY]">>
    ELSE <<>>

\* .required()
RequiredErrors(b, f) ==
    IF Has(b, f) THEN <<>> ELSE <<"\"" \o f \o "\" is required">>

\* schema.validate(body) stops at the first failing key (abortEarly), keys in
\* schema order; error.details.map(d => d.message)
FirstOf(errs) == IF errs = <<>> THEN <<>> ELSE <<Head(errs)>>

PaymentTypes == {"FIRST_PAYMENT", "ECOMMERCE", "SUBSCRIPTION", "UNSCHEDULED"}

\* paymentType is a key of the schema of server.js only; the schema of
\* api/_utils.js takes it as an unknown key, whatever its value
PaymentTypeErrors(target, b) ==
    IF target = "server" /\ Has(b, "paymentType") /\ b.paymentType \notin PaymentTypes
    THEN <<"\"paymentType\" must be one of [FIRST_PAYMENT, ECOMMERCE, SUBSCRIPTION, UNSCHEDULED]">>
    ELSE <<>>

SessionSchemaErrors(target, b) ==
    FirstOf(AmountErrors(b) \o CurrencyErrors(b, "currency")
            \o CurrencyErrors(b, "currencyCode") \o PaymentTypeErrors(target, b))

ChargeSchemaErrors(b) ==
    FirstOf(RequiredErrors(b, "paymentMethodToken")
            \o RequiredErrors(b, "amount") \o AmountErrors(b)
            \o RequiredErrors(b, "currencyCode") \o CurrencyErrors(b, "currencyCode"))

\* validate() also returns the value with the schema defaults filled in
SessionValue(b) ==
    b @@ [currency |-> "GBP", countryCode |-> "GB", applePayRecurring |-> FALSE,
          applePayDeferred |-> FALSE, applePayAutoReload |-> FALSE]

\* `ORD-${Date.now()}-${crypto.randomBytes(4).toString('hex').toUpperCase()}`
GeneratedIds == {"ORD-T1-AAAA", "ORD-T2-BBBB"}

\* Mutant of the key check: the placeholder is taken for a key.
ApiKeyMissing_EmptyOnly(cfg) == cfg.apiKey = ""

\* validateApiKey(): !PRIMER_API_KEY || PRIMER_API_KEY === 'sk_test_...'
ApiKeyMissing(cfg) == cfg.apiKey = "" \/ cfg.apiKey = "sk_test_..."

\* ------------------------------------------------------------------------
\* Request normalizer: orderData of POST /create-client-session
\* ------------------------------------------------------------------------
IsNativeShape(value) ==
    Has(value, "orderId") \/ Has(value, "currencyCode") \/ Has(value, "order")

CustomerOf(value) ==
    [emailAddress |-> IF Has(value, "customerEmail") THEN value.customerEmail
                      ELSE "demo@example.com"]

AmountOf(value) == IF Has(value, "amount") THEN value.amount ELSE DefaultAmount

\* ...(value.f && { f: value.f }); every value of the model is truthy
Pass(value, f) == IF Has(value, f) THEN f :> value[f] ELSE EmptyRec

\* ...(value.customer && {customer}), ...(!value.customer && {customer: {...}})
NativeCustomer(value) ==
    IF Has(value, "customer") THEN Pass(value, "customer")
    ELSE [customer |-> CustomerOf(value)]

NativeOrder(value) ==
    IF Has(value, "order") THEN Pass(value, "order")
    ELSE [order |-> [countryCode |-> value.countryCode,
                     lineItems |-> <<[itemId |-> "direct-api-item",
                                      description |-> "Direct API Test Item",
                                      amount |-> AmountOf(value),
                                      quantity |-> 1]>>]]

\* server.js passes paymentType on; api/create-client-session.js has no such line
NativeOrderData(target, value, gen) ==
    [orderId |-> IF Has(value, "orderId") THEN value.orderId ELSE gen,
     currencyCode |-> IF Has(value, "currencyCode") THEN value.currencyCode
                      ELSE value.currency,
     amount |-> AmountOf(value)]
    @@ Pass(value, "customerId")
    @@ NativeCustomer(value)
    @@ NativeOrder(value)
    @@ Pass(value, "paymentMethod")
    @@ (IF target = "server" THEN Pass(value, "paymentType") ELSE EmptyRec)
    @@ Pass(value, "metadata")

\* items ? items.map(...) : [one default item]
LineItemOf(item) ==
    [itemId |-> item.id, description |-> item.name,
     amount |-> item.amount, quantity |-> item.quantity]

\* Mutant of the default line item: its amount is the fixed default.
SimplifiedLineItems_DefaultAmount(value) ==
    IF Has(value, "items")
    THEN [i \in DOMAIN value.items |-> LineItemOf(value.items[i])]
    ELSE <<[itemId |-> "hoodie-sku-1",
            description |-> "Premium Primer Hoodie",
            amount |-> DefaultAmount,
            quantity |-> 1]>>

SimplifiedLineItems(value) ==
    IF Has(value, "items")
    THEN [i \in DOMAIN value.items |-> LineItemOf(value.items[i])]
    ELSE <<[itemId |-> "hoodie-sku-1",
            description |-> "Premium Primer Hoodie",
            amount |-> AmountOf(value),
            quantity |-> 1]>>

\* applePayX && {...}: a flag that is absent or false spreads nothing
Flag(value, f) == IF Has(value, f) THEN value[f] ELSE FALSE

\* ...(applePayRecurring && { merchantCapabilities, paymentSummaryItems })
RecurringOptions(value) ==
    [merchantCapabilities |->
        <<"supports3DS", "supportsEMV", "supportsCredit", "supportsDebit">>,
     paymentSummaryItems |->
        <<[label |-> "Recurring Payment Setup", amount |-> AmountOf(value),
           type |-> "final"]>>]

\* ...(applePayDeferred && { merchantCapabilities, paymentSummaryItems })
DeferredOptions(value) ==
    [merchantCapabilities |-> <<"supports3DS", "supportsEMV", "supportsCredit">>,
     paymentSummaryItems |->
        <<[label |-> "Buy Now, Pay Later", amount |-> AmountOf(value),
           type |-> "pending"]>>]

\* ...(applePayAutoReload && { merchantCapabilities, paymentSummaryItems })
AutoReloadOptions(value) ==
    [merchantCapabilities |->
        <<"supports3DS", "supportsEMV", "supportsCredit", "supportsDebit">>,
     paymentSummaryItems |->
        <<[label |-> "Auto-reload Setup", amount |-> AmountOf(value),
           type |-> "final"]>>]

Spread(cond, rec) == IF cond THEN rec ELSE EmptyRec

\* Mutant of the object literal: the spreads in the opposite order, so that the
\* first set flag wins.
ApplePayOptions_FirstWins(value) ==
    Spread(Flag(value, "applePayRecurring"), RecurringOptions(value))
    @@ Spread(Flag(value, "applePayDeferred"), DeferredOptions(value))
    @@ Spread(Flag(value, "applePayAutoReload"), AutoReloadOptions(value))
    @@ Spread(Has(value, "applePayMerchantName"),
              [merchantDisplayName |-> value.applePayMerchantName])

\* options.APPLE_PAY: an object literal of four spreads; a key spread later
\* replaces the same key spread earlier (f @@ g keeps f's value).
ApplePayOptions(value) ==
    Spread(Flag(value, "applePayAutoReload"), AutoReloadOptions(value))
    @@ Spread(Flag(value, "applePayDeferred"), DeferredOptions(value))
    @@ Spread(Flag(value, "applePayRecurring"), RecurringOptions(value))
    @@ Spread(Has(value, "applePayMerchantName"),
              [merchantDisplayName |-> value.applePayMerchantName])

SimplifiedOrderData(target, value, gen) ==
    [orderId |-> gen,
     currencyCode |-> value.currency,
     amount |-> AmountOf(value),
     customer |-> CustomerOf(value),
     order |-> [lineItems |-> SimplifiedLineItems(value),
                countryCode |-> value.countryCode],
     paymentMethod |-> [vaultOnSuccess |-> Has(value, "customerId"),
                        options |-> [APPLE_PAY |-> ApplePayOptions(value)]]]
    @@ Pass(value, "customerId")
    @@ (IF target = "server" THEN Pass(value, "paymentType") ELSE EmptyRec)

OrderData(target, value, gen) ==
    IF IsNativeShape(value) THEN NativeOrderData(target, value, gen)
    ELSE SimplifiedOrderData(target, value, gen)

\* paymentRequest of POST /charge-payment-method
PaymentRequest(value, gen) ==
    [orderId |-> IF Has(value, "orderId") THEN value.orderId ELSE gen,
     amount |-> value.amount,
     currencyCode |-> value.currencyCode,
     paymentMethodToken |-> value.paymentMethodToken]

\* ------------------------------------------------------------------------
\* Outbound calls: what one fetch to the processor can come to.
\*   ok           2xx, JSON body
\*   ok_nostatus  2xx, JSON body without a status field (charge only)
\*   ok_nojson    2xx, body that is not JSON
\*   lost         the processor took the request, the response never arrived
\*   http_json    non-2xx with a JSON body
\*   http_nojson  non-2xx with a body that is not JSON
\*   transport    the request never reached the processor (fetch rejects)
\* ------------------------------------------------------------------------
UpstreamErrorStatuses == {400, 503}

Outcome(kind, status) == [kind |-> kind, status |-> status]

SessionOutcomes ==
    {Outcome("ok", 200), Outcome("ok_nojson", 200), Outcome("transport", 0)}
    \cup {Outcome(k, s) : k \in {"http_json", "http_nojson"}, s \in UpstreamErrorStatuses}

ChargeOutcomes ==
    {Outcome("ok", 200), Outcome("ok_nostatus", 200), Outcome("ok_nojson", 200),
     Outcome("lost", 0), Outcome("transport", 0)}
    \cup {Outcome(k, s) : k \in {"http_json", "http_nojson"}, s \in UpstreamErrorStatuses}

\* An Error object: its class, error.status (0 for undefined), and whether
\* error.data is set.
Failure(name, status, hasData) == [name |-> name, status |-> status, hasData |-> hasData]

Threw(e) == [threw |-> TRUE, e |-> e]
Returned(v) == [threw |-> FALSE, v |-> v]

SessionData == [clientToken |-> "tok_abc", expiresAt |-> "2024-01-01T00:00:00Z"]

\* Mutant of the unit of work: the ok test is missing, any JSON body is returned.
SessionWork_NoOkTest(o) ==
    CASE o.kind = "transport" -> Threw(Failure("TypeError", 0, FALSE))
      [] o.kind \in {"ok_nojson", "http_nojson"} -> Threw(Failure("SyntaxError", 0, FALSE))
      [] o.kind \in {"ok", "http_json"} -> Returned(SessionData)

\* The unit of work of session creation: fetch, apiResponse.json(), ok test.
SessionWork(o) ==
    CASE o.kind = "transport" -> Threw(Failure("TypeError", 0, FALSE))
      [] o.kind \in {"ok_nojson", "http_nojson"} -> Threw(Failure("SyntaxError", 0, FALSE))
      [] o.kind = "http_json" -> Threw(Failure("Error", o.status, TRUE))
      [] o.kind = "ok" -> Returned(SessionData)

\* The unit of work of a charge: fetch, ok test, response.json().
ChargeWork(o) ==
    CASE o.kind \in {"transport", "lost"} -> Threw(Failure("TypeError", 0, FALSE))
      [] o.kind \in {"http_json", "http_nojson"} -> Threw(Failure("Error", 0, FALSE))
      [] o.kind = "ok_nojson" -> Threw(Failure("SyntaxError", 0, FALSE))
      [] o.kind = "ok" -> Returned([id |-> "pay_1", hasStatus |-> TRUE])
      [] o.kind = "ok_nostatus" -> Returned([id |-> "pay_1", hasStatus |-> FALSE])

\* Mutant of the catch: an upstream 4xx is treated as final and raised at once.
Settle_FailFastOnClientError(rt, w) ==
    IF w.threw /\ w.e.status \in 400..499
    THEN [rt EXCEPT !.calls = @ + 1, !.pc = "thrown",
                    !.result = [kind |-> "error", e |-> w.e]]
    ELSE IF w.threw THEN FnThrew(rt, w.e) ELSE FnReturned(rt, w.v)

\* retryWithBackoff's catch / return applied to what the work came to
Settle(rt, w) == IF w.threw THEN FnThrew(rt, w.e) ELSE FnReturned(rt, w.v)

\* The processor's side of a charge call: a request that reaches it and is
\* accepted creates a payment unless its X-Idempotency-Key was seen before.
Accepted(o) == o.kind \in {"ok", "ok_nostatus", "ok_nojson", "lost"}

ProcessorAfter(p, o, key) ==
    IF Accepted(o) /\ key \notin p.keys
    THEN [keys |-> p.keys \cup {key}, payments |-> p.payments + 1]
    ELSE p

\* `charge-${Date.now()}-${Math.random().toString(36).substring(2, 15)}`
IdemKeys == {"charge-t1-a", "charge-t2-b", "charge-t3-c"}

\* ------------------------------------------------------------------------
\* Responses.  fields is the set of keys of the JSON body.
\* ------------------------------------------------------------------------
Response(status, fields) == [status |-> status, fields |-> fields]

\* upstream: the keys of the body whose value is the body the processor sent
Carrying(resp, keys) == resp @@ [upstream |-> keys]
UpstreamKeys(resp) == IF Has(resp, "upstream") THEN resp.upstream ELSE {}

IsDev(cfg) == cfg.nodeEnv = "development"

\* Mutant of the status of an error response: always 500.
StatusOf_Always500(e) == 500

\* const statusCode = error.status || 500;
StatusOf(e) == IF e.status # 0 THEN e.status ELSE 500

SessionErrorResponse(target, cfg, e) ==
    LET data == IF ~(IsDev(cfg) /\ e.hasData) THEN {}
                ELSE IF target = "server" THEN {"debug"} ELSE {"details"}
    IN  IF target = "server"
        THEN Carrying(Response(StatusOf(e), {"error", "message", "timestamp"} \cup data),
                      data)
        ELSE Carrying(Response(StatusOf(e), {"error", "timestamp"} \cup data), data)

SessionValidationResponse(target) ==
    IF target = "server" THEN Response(400, {"error", "details"})
    ELSE Response(400, {"error", "details", "timestamp"})

\* Mutant of the success response: the amount is the default, not the payload's.
SessionSuccessResponse_DefaultAmount(payload, data) ==
    Response(200, {"clientToken", "orderId", "amount", "currency", "expiresAt"})
    @@ [clientToken |-> data.clientToken, orderId |-> payload.orderId,
        amount |-> DefaultAmount, currency |-> payload.currencyCode,
        expiresAt |-> data.expiresAt]

\* res.json({ clientToken: response.clientToken, orderId: orderData.orderId, ... })
SessionSuccessResponse(payload, data) ==
    Response(200, {"clientToken", "orderId", "amount", "currency", "expiresAt"})
    @@ [clientToken |-> data.clientToken, orderId |-> payload.orderId,
        amount |-> payload.amount, currency |-> payload.currencyCode,
        expiresAt |-> data.expiresAt]

\* What the handler answers once retryWithBackoff has settled.
SessionFinish(target, cfg, payload, rt) ==
    CASE rt.pc = "returned" -> SessionSuccessResponse(payload, rt.result.v)
      [] rt.pc = "thrown" -> SessionErrorResponse(target, cfg, rt.result.e)
      [] rt.pc = "resolved" ->
            SessionErrorResponse(target, cfg, Failure("TypeError", 0, FALSE))

ChargeKeyMissingResponse(target) ==
    IF target = "server" THEN Response(500, {"error", "timestamp"})
    ELSE Response(500, {"error", "details", "timestamp"})

ChargeValidationResponse(target) == Response(400, {"error", "details", "timestamp"})

ChargeErrorResponse(target, cfg) ==
    IF target = "server"
    THEN Response(500, {"error", "timestamp"} \cup IF IsDev(cfg) THEN {"debug"} ELSE {})
    ELSE Response(500, {"error", "details", "timestamp"})

\* Mutant of the charge handler: the success response is built outside the
\* try block, so a payment without a status ends the handler with no response.
ChargeFinish_SuccessOutsideTry(target, cfg, rt) ==
    IF rt.pc = "returned" /\ rt.result.v.hasStatus
    THEN Response(200, {"success", "payment", "message"})
    ELSE IF rt.pc = "returned" THEN Response(0, {})
    ELSE ChargeErrorResponse(target, cfg)

\* paymentResponse.status.toLowerCase() throws inside the try block when the
\* payment has no status; the catch answers 500.
ChargeFinish(target, cfg, rt) ==
    IF rt.pc = "returned" /\ rt.result.v.hasStatus
    THEN Response(200, {"success", "payment", "message"})
    ELSE ChargeErrorResponse(target, cfg)

\* GET /payments/:id.  One fetch, no retry; the id is a non-empty path segment
\* in both targets.
PaymentIds == {"pay_1", "pay_2"}
StatusErrorStatuses == {404, 503}
StatusOutcomes ==
    {Outcome("ok", 200), Outcome("ok_nojson", 200), Outcome("transport", 0)}
    \cup {Outcome(k, s) : k \in {"http_json", "http_nojson"}, s \in StatusErrorStatuses}

StatusKeyMissingResponse(target) ==
    IF target = "server" THEN Response(500, {"error", "timestamp"})
    ELSE Response(500, {"error", "details", "timestamp"})

\* const data = await response.json(); if (!response.ok) ...; return data
StatusFinish(target, o) ==
    CASE o.kind = "ok" ->
            Carrying(Response(200, {"id", "status"}), {"id", "status"})
      [] o.kind = "http_json" ->
            Carrying(Response(o.status, {"error", "details", "timestamp"}), {"details"})
      [] OTHER ->
            IF target = "server" THEN Response(500, {"error", "message", "timestamp"})
            ELSE Response(500, {"error", "details", "timestamp"})

\* ------------------------------------------------------------------------
\* The session-create and charge handlers, in both deployment targets.
\* ------------------------------------------------------------------------
Targets == {"server", "vercel"}
ApiKeys == {"", "sk_test_...", "sk_live"}
NodeEnvs == {"development", "production"}

Init ==
    /\ config \in [apiKey : ApiKeys, nodeEnv : NodeEnvs,
                   webhookSecret : {""}, verifyWebhooks : {"unset"}]
    /\ h = IdleHandler
    /\ proc = IdleProc
    /\ rx = IdleRetry
    /\ fnPlan = IdlePlan
    /\ wh = IdleWebhook
    /\ limiter = IdleLimiter
    /\ served = "none"

Answered(endpoint, target, body, resp) ==
    [IdleHandler EXCEPT !.pc = "done", !.endpoint = endpoint, !.target = target,
                        !.body = body, !.resp = resp]

Calling(endpoint, target, body, payload, maxRetries) ==
    [IdleHandler EXCEPT !.pc = "retry", !.endpoint = endpoint, !.target = target,
                        !.body = body, !.payload = payload,
                        !.rt = RetryStart(maxRetries, DefaultBaseDelay)]

\* The handler up to its first await: validateApiKey(), schema validation,
\* construction of orderData, entry into retryWithBackoff(fn).
SessionPrologue(target, cfg, body, gen) ==
    IF ApiKeyMissing(cfg)
    THEN Answered("session", target, body,
                  SessionErrorResponse(target, cfg, Failure("Error", 0, FALSE)))
    ELSE IF SessionSchemaErrors(target, body) # <<>>
    THEN Answered("session", target, body, SessionValidationResponse(target))
         @@ [details |-> SessionSchemaErrors(target, body)]
    ELSE Calling("session", target, body, OrderData(target, SessionValue(body), gen),
                 DefaultMaxRetries)

\* The same for a charge: retryWithBackoff(fn, 3).
ChargePrologue(target, cfg, body, gen) ==
    IF ApiKeyMissing(cfg)
    THEN Answered("charge", target, body, ChargeKeyMissingResponse(target))
    ELSE IF ChargeSchemaErrors(body) # <<>>
    THEN Answered("charge", target, body, ChargeValidationResponse(target))
         @@ [details |-> ChargeSchemaErrors(body)]
    ELSE Calling("charge", target, body, PaymentRequest(body, gen), ChargeMaxRetries)

\* POST /create-client-session arrives
ReceiveSession ==
    /\ h.pc = "idle" /\ wh.pc = "idle"
    /\ \E target \in Targets, body \in SessionBodies, gen \in GeneratedIds :
          h' = SessionPrologue(target, config, body, gen)
    /\ UNCHANGED <<rx, fnPlan, config, proc, wh, limiter, served>>

\* POST /charge-payment-method arrives
ReceiveCharge ==
    /\ h.pc = "idle" /\ wh.pc = "idle"
    /\ \E target \in Targets, body \in ChargeBodies, gen \in GeneratedIds :
          h' = ChargePrologue(target, config, body, gen)
    /\ UNCHANGED <<rx, fnPlan, config, proc, wh, limiter, served>>

\* The status handler up to its await: key check, then the fetch.
StatusPrologue(target, cfg, id) ==
    IF ApiKeyMissing(cfg)
    THEN Answered("status", target, [id |-> id], StatusKeyMissingResponse(target))
    ELSE [IdleHandler EXCEPT !.pc = "fetch", !.endpoint = "status", !.target = target,
                             !.body = [id |-> id], !.inflight = 1, !.outbound = 1]

\* GET /payments/:id arrives
ReceiveStatus ==
    /\ h.pc = "idle" /\ wh.pc = "idle"
    /\ \E target \in Targets, id \in PaymentIds :
          h' = StatusPrologue(target, config, id)
    /\ UNCHANGED <<rx, fnPlan, config, proc, wh, limiter, served>>

\* The one outbound call of a status request settles and the handler answers.
StatusSettle ==
    /\ h.pc = "fetch" /\ h.endpoint = "status" /\ h.inflight = 1 /\ ~h.silent
    /\ \E o \in StatusOutcomes :
          h' = [h EXCEPT !.pc = "done", !.inflight = 0, !.log = Append(@, o),
                         !.resp = StatusFinish(h.target, o)]
    /\ UNCHANGED <<rx, fnPlan, config, proc, wh, limiter, served>>

\* fn() is entered: fetch(PRIMER_API_URL, {... body: JSON.stringify(orderData)})
SessionSend ==
    /\ h.pc = "retry" /\ h.endpoint = "session"
    /\ h.rt.pc = "call" /\ h.inflight = 0
    /\ h' = [h EXCEPT !.inflight = 1, !.outbound = @ + 1,
                       !.sent = Append(@, h.payload)]
    /\ UNCHANGED <<rx, fnPlan, config, proc, wh, limiter, served>>

\* fn() is entered: fetch('.../payments') with a newly drawn X-Idempotency-Key
ChargeSend ==
    /\ h.pc = "retry" /\ h.endpoint = "charge"
    /\ h.rt.pc = "call" /\ h.inflight = 0
    /\ \E key \in IdemKeys :
          h' = [h EXCEPT !.inflight = 1, !.outbound = @ + 1, !.keys = Append(@, key),
                         !.sent = Append(@, h.payload)]
    /\ UNCHANGED <<rx, fnPlan, config, proc, wh, limiter, served>>

\* The handler after one outbound call of a session request came to o
SessionSettled(o) ==
    LET rt == Settle(h.rt, SessionWork(o))
        hh == [h EXCEPT !.inflight = 0, !.log = Append(@, o), !.rt = rt]
    IN  IF RetryDone(rt)
        THEN [hh EXCEPT !.pc = "done",
                        !.resp = SessionFinish(h.target, config, h.payload, rt)]
        ELSE hh

\* The outbound call of a session request settles; if that settles
\* retryWithBackoff as well, the handler answers.
SessionSettle ==
    /\ h.pc = "retry" /\ h.endpoint = "session" /\ h.inflight = 1 /\ ~h.silent
    /\ \E o \in SessionOutcomes : h' = SessionSettled(o)
    /\ UNCHANGED <<rx, fnPlan, config, proc, wh, limiter, served>>

\* The outbound call of a charge settles.
ChargeSettle ==
    /\ h.pc = "retry" /\ h.endpoint = "charge" /\ h.inflight = 1 /\ ~h.silent
    /\ \E o \in ChargeOutcomes :
          LET rt == Settle(h.rt, ChargeWork(o))
              hh == [h EXCEPT !.inflight = 0, !.log = Append(@, o), !.rt = rt]
          IN  /\ h' = IF RetryDone(rt)
                      THEN [hh EXCEPT !.pc = "done",
                                      !.resp = ChargeFinish(h.target, config, rt)]
                      ELSE hh
              /\ proc' = ProcessorAfter(proc, o, h.keys[Len(h.keys)])
    /\ UNCHANGED <<rx, fnPlan, config, wh, limiter, served>>

\* The processor takes the connection and never answers.  fetch is called
\* without a signal or a timeout, so await fetch(...) stays pending: no step of
\* the handler is left to take.
ProcessorSilent ==
    /\ h.inflight = 1 /\ ~h.silent
    /\ h' = [h EXCEPT !.silent = TRUE]
    /\ UNCHANGED <<rx, fnPlan, config, proc, wh, limiter, served>>

\* The backoff timer of the request fires; the loop test sends it back to fn()
\* or, past the last attempt, settles retryWithBackoff with undefined.
BackoffElapsed ==
    /\ h.pc = "retry" /\ h.rt.pc = "wait"
    /\ LET rt == TimerFired(h.rt)
           hh == [h EXCEPT !.rt = rt]
       IN  h' = IF RetryDone(rt)
                THEN [hh EXCEPT !.pc = "done",
                         !.resp = IF h.endpoint = "session"
                                  THEN SessionFinish(h.target, config, h.payload, rt)
                                  ELSE ChargeFinish(h.target, config, rt)]
                ELSE hh
    /\ UNCHANGED <<rx, fnPlan, config, proc, wh, limiter, served>>

\* The response has been sent; nothing of the request is kept and the server
\* waits for the next one.
RequestOver ==
    /\ h.pc = "done"
    /\ h' = IdleHandler
    /\ proc' = IdleProc
    /\ UNCHANGED <<rx, fnPlan, config, wh, limiter, served>>

Next ==
    \/ ReceiveSession
    \/ ReceiveCharge
    \/ ReceiveStatus
    \/ StatusSettle
    \/ SessionSend
    \/ ChargeSend
    \/ SessionSettle
    \/ ChargeSettle
    \/ BackoffElapsed
    \/ ProcessorSilent
    \/ RequestOver

Spec == Init /\ [][Next]_vars

\* The event loop runs every continuation and timer that is ready, and a
\* processor that answers does so in the end.
SpecLive == Spec /\ WF_vars(Next)

\* ------------------------------------------------------------------------
\* Claims about the session-create and charge handlers
\* ------------------------------------------------------------------------
SchemaErrorsOf(endpoint, body) ==
    IF endpoint = "session" THEN SessionSchemaErrors(h.target, body)
    ELSE ChargeSchemaErrors(body)

\* the request passed the API-key check and the schema
Validated == h.pc \in {"retry", "done"} /\ ~ApiKeyMissing(config)
             /\ SchemaErrorsOf(h.endpoint, h.body) = <<>>

FailedAttempt(o) == o.kind \notin {"ok", "ok_nostatus"}
AllAttemptsFailed == \A i \in 1..Len(h.log) : FailedAttempt(h.log[i])

\* C3: with a processor that de-duplicates on the X-Idempotency-Key header, one
\* charge request creates at most one payment over all of its retry attempts.
C3_AtMostOnePayment == h.endpoint = "charge" => proc.payments <= 1

\* A body with one of the schema violations the claim names: a negative amount,
\* an unsupported currency, a charge without paymentMethodToken.
BodyFailsSchema ==
    \/ Has(h.body, "amount") /\ h.body.amount < 0
    \/ Has(h.body, "currency") /\ h.body.currency \notin Currencies
    \/ Has(h.body, "currencyCode") /\ h.body.currencyCode \notin Currencies
    \/ h.endpoint = "charge" /\ ~Has(h.body, "paymentMethodToken")

C9_EveryFailureRetried ==
    Validated =>
        /\ h.rt.maxRetries = 3 /\ h.rt.baseDelay = 1000
        /\ h.outbound <= 3
        /\ h.pc = "done" =>
            /\ h.outbound >= 1
            /\ Len(h.log) = h.outbound
            /\ AllAttemptsFailed => h.outbound = 3

C9_Witness ==
    /\ h.pc = "done" /\ Validated /\ h.outbound = 3 /\ Len(h.log) = 3
    /\ h.log[1] = Outcome("http_json", 400)
    /\ h.log[2] = Outcome("transport", 0)
    /\ h.log[3] = Outcome("http_json", 503)

OneItem == [id |-> "sku-9", name |-> "Mug", amount |-> 700, quantity |-> 2]
OneLineItem == [itemId |-> "li-1", description |-> "Cap", amount |-> 1000, quantity |-> 1]

NormalizerBodies ==
    {a @@ o @@ cc @@ c @@ ce @@ ci @@ cu @@ od @@ pm @@ pt @@ md @@ co @@ un @@ it :
        a \in Opt("amount", {1000}),
        o \in Opt("orderId", {"ORD-1"}),
        cc \in Opt("currencyCode", {"USD"}),
        c \in Opt("currency", {"EUR"}),
        ce \in Opt("customerEmail", {"a@b.co"}),
        ci \in Opt("customerId", {"cus_1"}),
        cu \in Opt("customer", {[emailAddress |-> "c@d.co"], EmptyRec}),
        od \in Opt("order", {[countryCode |-> "FR", lineItems |-> <<OneLineItem>>],
                             [countryCode |-> "FR"]}),
        pm \in Opt("paymentMethod", {[vaultOnSuccess |-> TRUE]}),
        pt \in Opt("paymentType", {"SUBSCRIPTION", "WEEKLY"}),
        md \in Opt("metadata", {[ref |-> "r1"]}),
        co \in Opt("countryCode", {"DE"}),
        un \in Opt("merchantReference", {"m-1"}),
        it \in Opt("items", {<<>>})}

\* Bodies of the simplified shape with the Apple Pay fields
ApplePayBodies ==
    {a @@ n @@ r @@ d @@ u :
        a \in Opt("amount", {1000}),
        n \in Opt("applePayMerchantName", {"Shop"}),
        r \in Opt("applePayRecurring", BOOLEAN),
        d \in Opt("applePayDeferred", BOOLEAN),
        u \in Opt("applePayAutoReload", BOOLEAN)}

InitNormalizer ==
    /\ config = IdleConfig
    /\ h = IdleHandler
    /\ proc = IdleProc
    /\ rx = IdleRetry
    /\ fnPlan = IdlePlan
    /\ wh = IdleWebhook
    /\ limiter = IdleLimiter
    /\ served = "none"

\* POST /create-client-session up to the call of retryWithBackoff
NormalizeSession ==
    /\ h.pc = "idle"
    /\ \E target \in Targets, body \in NormalizerBodies \cup ApplePayBodies,
          gen \in GeneratedIds :
          h' = SessionPrologue(target, config, body, gen)
    /\ UNCHANGED <<rx, fnPlan, config, proc, wh, limiter, served>>

NormalizeOver ==
    /\ h.pc # "idle"
    /\ h' = IdleHandler
    /\ UNCHANGED <<rx, fnPlan, config, proc, wh, limiter, served>>

NextNormalizer == NormalizeSession \/ NormalizeOver

SpecNormalizer == InitNormalizer /\ [][NextNormalizer]_vars

\* the request was accepted and its payload is built
PayloadBuilt == h.pc = "retry" /\ h.endpoint = "session"
NativeRequest ==
    PayloadBuilt /\ (Has(h.body, "orderId") \/ Has(h.body, "currencyCode")
                     \/ Has(h.body, "order"))
PassThroughFields ==
    {"orderId", "currencyCode", "customer", "order", "paymentMethod",
     "paymentType", "metadata"}
SameInPayload(f) == Has(h.body, f) => (Has(h.payload, f) /\ h.payload[f] = h.body[f])

\* C12: for every valid session request in the processor-native shape, each of
\* orderId, currencyCode, customer, order, paymentMethod, paymentType and
\* metadata that the caller supplied is unchanged in the payload, in both
\* targets; an absent customer is synthesized from customerEmail or the
\* placeholder, an absent order has one line item of the amount and the given
\* or default country code.
C12_NativeFieldsPassThrough ==
    NativeRequest =>
        /\ \A f \in PassThroughFields : SameInPayload(f)
        /\ ~Has(h.body, "customer") =>
              h.payload.customer.emailAddress =
                  (IF Has(h.body, "customerEmail") THEN h.body.customerEmail
                   ELSE "demo@example.com")
        /\ ~Has(h.body, "order") =>
              /\ Len(h.payload.order.lineItems) = 1
              /\ h.payload.order.lineItems[1].amount = h.payload.amount
              /\ h.payload.order.countryCode =
                  (IF Has(h.body, "countryCode") THEN h.body.countryCode ELSE "GB")

\* C13: for every accepted session request, in either shape, the payload has
\* an order identifier, a currency code, an integer amount, a customer with an
\* email address, and an order with a country code and a non-empty list of
\* line items.
C13_PayloadComplete ==
    PayloadBuilt =>
        /\ {"orderId", "currencyCode", "amount", "customer", "order"}
              \subseteq DOMAIN h.payload
        /\ h.payload.amount \in Int
        /\ Has(h.payload.customer, "emailAddress")
        /\ Has(h.payload.order, "countryCode")
        /\ Has(h.payload.order, "lineItems")
        /\ h.payload.order.lineItems # <<>>

\* C14: in the processor-native shape, a field of the request that the schema
\* does not know is present, unmodified, in the payload.
C14_UnknownFieldsPassThrough ==
    NativeRequest => SameInPayload("merchantReference")

\* C11: when the API key is absent or the placeholder 'sk_test_...', the
\* session-create, charge and payment-status handlers answer 500 and make no
\* outbound call, whatever the request body is.
C11_NoKeyAnswered500 ==
    (h.pc # "idle" /\ config.apiKey \in {"", "sk_test_..."}) =>
        /\ h.pc = "done"
        /\ h.resp.status = 500
        /\ "error" \in h.resp.fields
        /\ h.outbound = 0 /\ h.inflight = 0

C11_Witness ==
    /\ h.pc = "done" /\ config.apiKey = "sk_test_..." /\ h.endpoint = "charge"
    /\ ChargeSchemaErrors(h.body) = <<>>
    /\ h.resp.status = 500 /\ h.outbound = 0

\* C15: every session-create or charge request that reached its outbound calls
\* is answered in the end, also when the processor never answers one of them.
C15_EveryRequestAnswered ==
    (h.pc = "retry" /\ h.endpoint \in {"session", "charge"}) ~> (h.pc = "done")

\* C17: in production no error response (status 400 or above) of the
\* session-create, charge or payment-status endpoint holds the body the
\* processor sent.
C17_NoUpstreamBodyInProduction ==
    (config.nodeEnv = "production" /\ h.pc = "done" /\ h.resp.status >= 400) =>
        UpstreamKeys(h.resp) = {}

LastAnswer == h.log[Len(h.log)]

C21_StatusNotRetried ==
    (h.pc = "done" /\ h.endpoint = "status"
        /\ config.apiKey \notin {"", "sk_test_..."}) =>
        /\ h.outbound = 1 /\ Len(h.log) = 1
        /\ LastAnswer.kind \in {"http_json", "http_nojson"} =>
              h.resp.status = LastAnswer.status

\* C24: for session-create and charge calls, when the processor answers with a
\* non-success status, the failure raised to the retry executor carries that
\* HTTP status code and the error detail (the parsed JSON body, or an empty
\* object when the body does not parse).  Stated on the failure of the final
\* attempt, which the executor keeps.
C24_FailureCarriesStatus ==
    (/\ h.pc = "done" /\ h.endpoint \in {"session", "charge"}
     /\ h.rt.pc = "thrown"
     /\ LastAnswer.kind \in {"http_json", "http_nojson"}) =>
        /\ h.rt.result.e.status = LastAnswer.status
        /\ h.rt.result.e.hasData

\* C25: the payload of a session-create request is built once and never
\* changed: every attempt of the request sends the identical payload, the one
\* built from the request; the orderId, amount and currency answered on success
\* are those of that payload, and clientToken and expiresAt are those of the
\* successful attempt's response.
C25_PayloadFixedAcrossAttempts ==
    (Validated /\ h.endpoint = "session") =>
        /\ \E gen \in GeneratedIds :
              h.payload = OrderData(h.target, SessionValue(h.body), gen)
        /\ Len(h.sent) = h.outbound
        /\ \A i \in 1..Len(h.sent) : h.sent[i] = h.payload
        /\ (h.pc = "done" /\ h.resp.status = 200) =>
              /\ h.rt.pc = "returned"
              /\ h.resp.orderId = h.payload.orderId
              /\ h.resp.amount = h.payload.amount
              /\ h.resp.currency = h.payload.currencyCode
              /\ h.resp.clientToken = h.rt.result.v.clientToken
              /\ h.resp.expiresAt = h.rt.result.v.expiresAt

C25_Witness ==
    /\ Validated /\ h.endpoint = "session" /\ h.pc = "done"
    /\ h.resp.status = 200 /\ h.outbound = 3
    /\ h.sent = <<h.payload, h.payload, h.payload>>
    /\ h.payload.amount = 1000 /\ h.resp.amount = 1000

SimplifiedRequest == PayloadBuilt /\ ~IsNativeShape(h.body)

RECURSIVE SumAmounts(_)
SumAmounts(items) ==
    IF items = <<>> THEN 0 ELSE items[1].amount + SumAmounts(Tail(items))

\* C26: a request of the simplified shape without explicit items gets a payload
\* with exactly one synthesized line item, of quantity 1, whose amount is the
\* payload's total amount (the requested amount, or 4999 when none was given),
\* so that the line-item amounts sum to the total.
C26_DefaultLineItemCarriesTotal ==
    (SimplifiedRequest /\ ~Has(h.body, "items")) =>
        LET items == h.payload.order.lineItems
        IN  /\ Len(items) = 1
            /\ items[1].quantity = 1
            /\ items[1].amount = h.payload.amount
            /\ h.payload.amount =
                  IF Has(h.body, "amount") THEN h.body.amount ELSE 4999
            /\ SumAmounts(items) = h.payload.amount

C26_Witness ==
    /\ SimplifiedRequest /\ ~Has(h.body, "items")
    /\ Has(h.body, "amount") /\ h.body.amount = 1000
    /\ Len(h.payload.order.lineItems) = 1
    /\ h.payload.order.lineItems[1].amount = 1000

\* the flag was sent as true
Sent(f) == Has(h.body, f) /\ h.body[f] = TRUE

\* the last set flag in the order recurring, deferred, auto-reload
LastSetFlag ==
    IF Sent("applePayAutoReload") THEN "autoReload"
    ELSE IF Sent("applePayDeferred") THEN "deferred"
    ELSE IF Sent("applePayRecurring") THEN "recurring"
    ELSE "none"

OptionsOfFlag(flag, value) ==
    CASE flag = "recurring" -> RecurringOptions(value)
      [] flag = "deferred" -> DeferredOptions(value)
      [] flag = "autoReload" -> AutoReloadOptions(value)

\* C27: in the simplified shape, for every combination of the recurring,
\* deferred and auto-reload flags, the Apple Pay options of the payload hold the
\* capabilities list and the single summary item of exactly one flag, the last
\* set flag in the order recurring, deferred, auto-reload; with no flag set
\* they hold neither a capabilities list nor a summary item.
C27_LastApplePayFlagWins ==
    SimplifiedRequest =>
        LET ap == h.payload.paymentMethod.options.APPLE_PAY
        IN  /\ LastSetFlag = "none" =>
                  /\ ~Has(ap, "merchantCapabilities")
                  /\ ~Has(ap, "paymentSummaryItems")
            /\ LastSetFlag # "none" =>
                  LET want == OptionsOfFlag(LastSetFlag, SessionValue(h.body))
                  IN  /\ Has(ap, "merchantCapabilities")
                      /\ Has(ap, "paymentSummaryItems")
                      /\ ap.merchantCapabilities = want.merchantCapabilities
                      /\ ap.paymentSummaryItems = want.paymentSummaryItems
                      /\ Len(ap.paymentSummaryItems) = 1

C27_Witness ==
    /\ SimplifiedRequest
    /\ Sent("applePayRecurring") /\ Sent("applePayDeferred")
    /\ ~Sent("applePayAutoReload")
    /\ h.payload.paymentMethod.options.APPLE_PAY.paymentSummaryItems[1].label
          = "Buy Now, Pay Later"

\* the processor answered the attempt with a 2xx status
SuccessStatus(o) == o.status \in 200..299

\* C29: whenever some attempt of a charge request was answered by the processor
\* with a success status, the handler makes no further outbound attempt and
\* reports success to the caller (200 with success and the payment object); it
\* never answers 500 for a charge the processor accepted.
C29_AcceptedChargeReported ==
    (h.endpoint = "charge" /\ Validated) =>
        \A i \in 1..Len(h.log) :
            SuccessStatus(h.log[i]) =>
                /\ h.outbound = i
                /\ h.pc = "done"
                /\ h.resp.status = 200
                /\ {"success", "payment"} \subseteq h.resp.fields

\* ------------------------------------------------------------------------
\* Two requests served at the same time.  The first is a request of Spec; the
\* second is reduced to its own run of retryWithBackoff over scripted work
\* (rx, fnPlan).  Every await of a handler hands control back to the event
\* loop, so the steps of the two interleave freely.
\* ------------------------------------------------------------------------
InitPair ==
    /\ config = IdleConfig
    /\ h = IdleHandler
    /\ proc = IdleProc
    /\ rx = RetryStart(DefaultMaxRetries, DefaultBaseDelay)
    /\ fnPlan = [k |-> 1, always |-> FALSE, val |-> "r1"]
    /\ wh = IdleWebhook
    /\ limiter = IdleLimiter
    /\ served = "none"

NextPair == Next \/ NextRetry

SpecPair == InitPair /\ [][NextPair]_vars

Retrying == h.pc = "retry" /\ h.endpoint \in {"session", "charge"}

\* C23: within one request the attempts are strictly sequential: at most one
\* outbound attempt is in flight, and only while the executor is at the call of
\* the work; attempt i+1 starts only after attempt i has failed and its backoff
\* wait has elapsed; and while the request is in an attempt or a backoff wait,
\* another request can take its next step.
C23_AttemptsSequential ==
    /\ h.inflight \in {0, 1}
    /\ Retrying =>
          /\ h.outbound = h.rt.calls + h.inflight
          /\ h.inflight = 1 => h.rt.pc = "call"
          /\ Len(h.log) = h.rt.calls
          /\ h.outbound >= 2 =>
                /\ \A i \in 1..(h.outbound - 1) :
                      Len(h.log) >= i /\ FailedAttempt(h.log[i])
                /\ Len(h.rt.waits) >= h.outbound - 1
          /\ rx.pc = "call" => ENABLED (RxFnReturns \/ RxFnThrows)
          /\ rx.pc = "wait" => ENABLED RxTimer

C23_Witness ==
    /\ Retrying /\ h.outbound = 2 /\ h.inflight = 1
    /\ Len(h.rt.waits) = 1 /\ FailedAttempt(h.log[1])
    /\ rx.pc = "returned" /\ rx.calls = 2

\* ------------------------------------------------------------------------
\* Webhook signatures.  Header values and hex digests are strings, held as
\* sequences of character codes; a digest is a sequence of bytes.
\* ------------------------------------------------------------------------
MacBytes == 2             \* bytes of a digest kept by the model (SHA-256 has 32)

EventTypes ==
    <<"PAYMENT_CREATED", "PAYMENT_AUTHORIZED", "PAYMENT_CAPTURED",
      "PAYMENT_FAILED", "PAYMENT_CANCELLED">>
UnknownEventTypes == {"REFUND_CREATED"}

Range(s) == {s[i] : i \in 1..Len(s)}

\* A webhook event as parsed JSON: {eventType?, data: {payment?: {id}}}
Events ==
    {t @@ p : t \in Opt("eventType", Range(EventTypes) \cup UnknownEventTypes),
              p \in Opt("payment", {[id |-> "pay_1"]})}

\* The text of a request body.  form "object": the event; form "array": a JSON
\* array holding the event's JSON text as its one string element; form
\* "malformed": not JSON.  spaced: the text has whitespace that
\* JSON.stringify(JSON.parse(text)) would not write.
BodyTexts ==
    [form : {"object", "array"}, spaced : BOOLEAN, ev : Events]
    \cup [form : {"malformed"}, spaced : {FALSE}, ev : {EmptyRec}]

IndexOf(seq, x) == IF x \in Range(seq) THEN CHOOSE i \in 1..Len(seq) : seq[i] = x ELSE 0

\* A number that identifies a text: distinct texts, distinct numbers.
TextCode(t) ==
    (IF Has(t.ev, "eventType")
     THEN (IF t.ev.eventType \in Range(EventTypes)
           THEN IndexOf(EventTypes, t.ev.eventType) ELSE 6)
     ELSE 0)
    + (IF Has(t.ev, "payment") THEN 8 ELSE 0)
    + (IF t.form = "array" THEN 16 ELSE IF t.form = "malformed" THEN 32 ELSE 0)
    + (IF t.spaced THEN 64 ELSE 0)

\* crypto.createHmac('sha256', secret).update(text).digest(): collision-free
\* over the texts of the model
SecretCode(secret) == IF secret = "whsec_1" THEN 3 ELSE 0
Hmac(secret, t) ==
    [i \in 1..MacBytes |->
        (TextCode(t) * (2 * i + 5) + 171 * i + SecretCode(secret)) % 256]

\* 'hex' encoding of bytes: two lower-case digits each
HexDigit(n) == IF n < 10 THEN 48 + n ELSE 87 + n
HexEncode(bytes) ==
    [i \in 1..(2 * Len(bytes)) |->
        IF i % 2 = 1 THEN HexDigit(bytes[(i + 1) \div 2] \div 16)
        ELSE HexDigit(bytes[i \div 2] % 16)]

\* Mutant of the digit reader: lower-case digits only.
HexValue_LowerOnly(c) ==
    IF c \in 48..57 THEN c - 48
    ELSE IF c \in 97..102 THEN c - 87
    ELSE -1

\* Value of a hex digit, -1 for any other character: 0-9, a-f and A-F are read.
HexValue(c) ==
    IF c \in 48..57 THEN c - 48
    ELSE IF c \in 97..102 THEN c - 87
    ELSE IF c \in 65..70 THEN c - 55
    ELSE -1

\* Buffer.from(s, 'hex'): bytes of the leading pairs of hex digits; decoding
\* stops at the first pair that is not two hex digits, a last odd character
\* is dropped.
RECURSIVE HexDecode(_)
HexDecode(s) ==
    IF Len(s) < 2 \/ HexValue(s[1]) < 0 \/ HexValue(s[2]) < 0 THEN <<>>
    ELSE <<16 * HexValue(s[1]) + HexValue(s[2])>> \o HexDecode(SubSeq(s, 3, Len(s)))

\* JSON.stringify(JSON.parse(text)) of a well-formed text
Reserialized(t) == [t EXCEPT !.spaced = FALSE]

\* What a handler passes as payload: a string, or a parsed value (object, array)
StringPayload(t) == [type |-> "string", text |-> t]
ValuePayload(type, t) == [type |-> type, text |-> t]

\* The x-primer-signature header: absent (undefined) or a string
NoHeader == [present |-> FALSE, chars |-> <<>>]
Header(chars) == [present |-> TRUE, chars |-> chars]

\* verifyWebhookSignature(payload, signature): "true", "false", or the error
\* it throws.
VerifyWebhookSignature(secret, payload, signature) ==
    IF secret = "" THEN "true"
    ELSE IF payload.type # "string" THEN "TypeError"       \* hmac.update(object)
    ELSE IF ~signature.present THEN "TypeError"            \* Buffer.from(undefined, 'hex')
    ELSE LET given == HexDecode(signature.chars)
             expected == HexDecode(HexEncode(Hmac(secret, payload.text)))
         IN  IF Len(given) # Len(expected) THEN "RangeError"   \* timingSafeEqual
             ELSE IF given = expected THEN "true" ELSE "false"

\* ------------------------------------------------------------------------
\* POST /webhook
\* ------------------------------------------------------------------------
HandlerFor(eventType) ==
    CASE eventType = "PAYMENT_CREATED" -> "handlePaymentCreated"
      [] eventType = "PAYMENT_AUTHORIZED" -> "handlePaymentAuthorized"
      [] eventType = "PAYMENT_CAPTURED" -> "handlePaymentCaptured"
      [] eventType = "PAYMENT_FAILED" -> "handlePaymentFailed"
      [] eventType = "PAYMENT_CANCELLED" -> "handlePaymentCancelled"
      [] OTHER -> "none"

\* catch (error): error instanceof SyntaxError ? 400 : 500
WebhookCatch(target, errorName) ==
    Response(IF errorName = "SyntaxError" THEN 400 ELSE 500,
             IF target = "server" THEN {"error", "message", "timestamp"}
             ELSE {"error", "details", "timestamp"})

WebhookRejected(target) ==
    IF target = "server" THEN Response(401, {"error"})
    ELSE Response(401, {"error", "timestamp"})

\* { received: true, eventType, paymentId: payment?.id, timestamp }; a key whose
\* value is undefined is not written.
Ack(ev) ==
    Response(200, {"received", "timestamp"}
                  \cup (IF Has(ev, "eventType") THEN {"eventType"} ELSE {})
                  \cup (IF Has(ev, "payment") THEN {"paymentId"} ELSE {}))
    @@ [received |-> TRUE]
    @@ (IF Has(ev, "eventType") THEN [eventType |-> ev.eventType] ELSE EmptyRec)
    @@ (IF Has(ev, "payment") THEN [paymentId |-> ev.payment.id] ELSE EmptyRec)

\* The switch on eventType and the acknowledgement.  Every handlePaymentX reads
\* payment.id first, which throws a TypeError when data.payment is absent.
Dispatch(target, ev) ==
    LET handler == IF Has(ev, "eventType") THEN HandlerFor(ev.eventType) ELSE "none"
    IN  [handler |-> handler,
         resp |-> IF handler # "none" /\ ~Has(ev, "payment")
                  THEN WebhookCatch(target, "TypeError")
                  ELSE Ack(ev)]

\* process.env.VERIFY_WEBHOOKS !== 'false' && !verifyWebhookSignature(...)
SignatureCheck(cfg, payload, signature) ==
    IF cfg.verifyWebhooks = "false" THEN "skipped"
    ELSE VerifyWebhookSignature(cfg.webhookSecret, payload, signature)

\* The body of the handler's try block, given the payload it verifies and what
\* reading the event out of the request comes to.
WebhookHandle(target, cfg, payload, parse, signature) ==
    LET verdict == SignatureCheck(cfg, payload, signature)
        base == [verdict |-> verdict, parsed |-> FALSE, handler |-> "none"]
    IN  CASE verdict = "false" -> base @@ [resp |-> WebhookRejected(target)]
          [] verdict \in {"TypeError", "RangeError"} ->
                base @@ [resp |-> WebhookCatch(target, verdict)]
          [] OTHER ->
                IF parse.threw
                THEN base @@ [resp |-> WebhookCatch(target, parse.e)]
                ELSE [verdict |-> verdict, parsed |-> TRUE] @@ Dispatch(target, parse.v)

\* Signature headers a sender may put on a request with the given body text:
\* none, the hex digest of the text, the hex digest of its re-serialization,
\* the digest in upper case, with trailing characters, cut short, empty, and
\* every single-bit flip of the hex digest.
Upper(s) == [i \in DOMAIN s |-> IF s[i] \in 97..102 THEN s[i] - 32 ELSE s[i]]
FlipBit(c, b) == IF (c \div Pow2(b)) % 2 = 1 THEN c - Pow2(b) ELSE c + Pow2(b)
FlipAt(s, pos, b) == [s EXCEPT ![pos] = FlipBit(@, b)]
SenderSecret == "whsec_1"
HexMac(t) == HexEncode(Hmac(SenderSecret, t))

BitFlips(s) == {FlipAt(s, pos, b) : pos \in 1..Len(s), b \in 0..6}

SignaturesFor(t) ==
    {NoHeader, Header(<<>>)}
    \cup {Header(c) :
            c \in {HexMac(t), HexMac(Reserialized(t)), Upper(HexMac(t)),
                   HexMac(t) \o <<122, 122>>,
                   SubSeq(HexMac(t), 1, Len(HexMac(t)) - 2)}
                  \cup BitFlips(HexMac(t))}

WebhookSecrets == {"", "whsec_1"}
VerifyFlags == {"unset", "true", "false"}
ContentTypes == {"application/json", "text/plain"}
WellFormed(t) == t.form # "malformed"

InitWebhook ==
    /\ config \in [apiKey : {"sk_live"}, nodeEnv : {"development"},
                   webhookSecret : WebhookSecrets, verifyWebhooks : VerifyFlags]
    /\ wh = IdleWebhook
    /\ limiter = IdleLimiter
    /\ served = "none"
    /\ h = IdleHandler
    /\ proc = IdleProc
    /\ rx = IdleRetry
    /\ fnPlan = IdlePlan

WebhookRequest(target, ctype, t, sig) ==
    [pc |-> "done", target |-> target, ctype |-> ctype, text |-> t, sig |-> sig]

\* server.js: app.use(express.json()) runs before the route's express.raw(), so
\* for a JSON content type req.body is already the parsed value (express.raw
\* skips a body that has been parsed), and a body that is not JSON ends in the
\* error middleware; for any other content type no parser reads the body and
\* req.body is an empty object.  JSON.parse(payload) first turns the value into
\* a string: "[object Object]" for an object, the element itself for an array
\* of one string.
ServerWebhook(cfg, ctype, t, sig) ==
    IF ctype = "application/json" /\ ~WellFormed(t)
    THEN [verdict |-> "none", parsed |-> FALSE, handler |-> "none",
          resp |-> Response(500, {"error"})]
    ELSE LET payload == IF ctype = "application/json" THEN ValuePayload(t.form, t)
                        ELSE ValuePayload("object", t)
             parse == IF payload.type = "array" THEN Returned(t.ev)
                      ELSE Threw("SyntaxError")
         IN  WebhookHandle("server", cfg, payload, parse, sig)

\* api/webhook.js: req.body is the parsed JSON body; the payload that is
\* verified is JSON.stringify(req.body); the event is req.body itself
\* (destructuring an array yields no eventType and no data).
VercelWebhook(cfg, t, sig) ==
    WebhookHandle("vercel", cfg, StringPayload(Reserialized(t)),
                  Returned(IF t.form = "object" THEN t.ev ELSE EmptyRec), sig)

ReceiveWebhookServer ==
    /\ wh.pc = "idle" /\ h.pc = "idle"
    /\ \E ctype \in ContentTypes, t \in BodyTexts :
          \E sig \in SignaturesFor(t) :
             wh' = WebhookRequest("server", ctype, t, sig)
                   @@ ServerWebhook(config, ctype, t, sig)
    /\ UNCHANGED <<rx, fnPlan, config, h, proc, limiter, served>>

ReceiveWebhookVercel ==
    /\ wh.pc = "idle" /\ h.pc = "idle"
    /\ \E t \in {b \in BodyTexts : WellFormed(b)} :
          \E sig \in SignaturesFor(t) :
             wh' = WebhookRequest("vercel", "application/json", t, sig)
                   @@ VercelWebhook(config, t, sig)
    /\ UNCHANGED <<rx, fnPlan, config, h, proc, limiter, served>>

WebhookOver ==
    /\ wh.pc = "done"
    /\ wh' = IdleWebhook
    /\ UNCHANGED <<rx, fnPlan, config, h, proc, limiter, served>>

NextWebhook == ReceiveWebhookServer \/ ReceiveWebhookVercel \/ WebhookOver

SpecWebhook == InitWebhook /\ [][NextWebhook]_vars

\* ------------------------------------------------------------------------
\* The rate limiters of server.js: app.use('/create-client-session',
\* createSessionLimiter) and app.use('/webhook', webhookLimiter), placed before
\* express.json().  The store is in process memory and counts the requests of
\* a client (its IP) in the current window; a request whose count exceeds max
\* is answered 429 with the message text and reaches no handler.  The api/
\* functions have no limiter.
\*
\* One client repeats one request in one window, and the processor gives the
\* same answer to every outbound call: limiter.route, target, body and answer
\* are fixed by Init; limiter.first is the status its first request got.
\* ------------------------------------------------------------------------
SessionLimitMax == 100
WebhookLimitMax == 1000

\* Mutant of the limit test: the max-th request is refused already.
RateLimited_AtMax(hits, max) == hits >= max

\* totalHits > max
RateLimited(hits, max) == hits > max

TooManyRequests == Response(429, {})

LimitOf(route) == IF route = "session" THEN SessionLimitMax ELSE WebhookLimitMax

LimiterBodies == {[amount |-> 1000], [amount |-> -5]}
LimiterAnswers == {Outcome("ok", 200), Outcome("http_json", 503)}
LimiterEvent ==
    [form |-> "object", spaced |-> FALSE,
     ev |-> [eventType |-> "PAYMENT_CAPTURED", payment |-> [id |-> "pay_1"]]]

InitLimiter ==
    /\ config = IdleConfig
    /\ h = IdleHandler
    /\ proc = IdleProc
    /\ rx = IdleRetry
    /\ fnPlan = IdlePlan
    /\ wh = IdleWebhook
    /\ \E route \in {"session", "webhook"}, target \in Targets,
          body \in LimiterBodies, answer \in LimiterAnswers :
          limiter = [IdleLimiter EXCEPT !.route = route, !.target = target,
                                        !.body = body, !.answer = answer]
    /\ served = "none"

\* the store's increment for a request on a limited route of the server
HitsAfter(lim) == IF lim.target = "server" THEN lim.hits + 1 ELSE lim.hits

Refused(lim) == lim.target = "server" /\ RateLimited(HitsAfter(lim), LimitOf(lim.route))

\* POST /create-client-session of the client arrives
LimitedSession ==
    /\ limiter.route = "session" /\ h.pc = "idle"
    /\ limiter.hits <= SessionLimitMax
    /\ limiter' = [limiter EXCEPT !.hits = HitsAfter(limiter)]
    /\ h' = IF Refused(limiter)
             THEN Answered("session", "server", limiter.body, TooManyRequests)
             ELSE SessionPrologue(limiter.target, config, limiter.body, "ORD-T1-AAAA")
    /\ UNCHANGED <<rx, fnPlan, config, proc, wh, served>>

\* an outbound call of the request gets the processor's answer
LimitedSettle ==
    /\ limiter.route = "session"
    /\ h.pc = "retry" /\ h.inflight = 1
    /\ h' = SessionSettled(limiter.answer)
    /\ UNCHANGED <<rx, fnPlan, config, proc, wh, limiter, served>>

LimitedSessionOver ==
    /\ limiter.route = "session" /\ h.pc = "done"
    /\ h' = IdleHandler
    /\ limiter' = [limiter EXCEPT !.first = IF @ = 0 THEN h.resp.status ELSE @]
    /\ UNCHANGED <<rx, fnPlan, config, proc, wh, served>>

\* POST /webhook of the client arrives
LimitedWebhook ==
    /\ limiter.route = "webhook" /\ wh.pc = "idle"
    /\ limiter.hits <= WebhookLimitMax
    /\ limiter' = [limiter EXCEPT !.hits = HitsAfter(limiter)]
    /\ wh' = WebhookRequest(limiter.target, "application/json", LimiterEvent, NoHeader)
             @@ (IF Refused(limiter)
                 THEN [verdict |-> "none", parsed |-> FALSE, handler |-> "none",
                       resp |-> TooManyRequests]
                 ELSE IF limiter.target = "server"
                 THEN ServerWebhook(config, "application/json", LimiterEvent, NoHeader)
                 ELSE VercelWebhook(config, LimiterEvent, NoHeader))
    /\ UNCHANGED <<rx, fnPlan, config, h, proc, served>>

LimitedWebhookOver ==
    /\ limiter.route = "webhook" /\ wh.pc = "done"
    /\ wh' = IdleWebhook
    /\ limiter' = [limiter EXCEPT !.first = IF @ = 0 THEN wh.resp.status ELSE @]
    /\ UNCHANGED <<rx, fnPlan, config, h, proc, served>>

\* windowMs has passed since the first request: the store forgets the client
WindowReset ==
    /\ limiter.hits > 0 /\ h.pc = "idle" /\ wh.pc = "idle"
    /\ limiter' = [limiter EXCEPT !.hits = 0, !.first = 0]
    /\ UNCHANGED <<rx, fnPlan, config, h, proc, wh, served>>

NextLimiter ==
    \/ LimitedSession
    \/ SessionSend
    \/ LimitedSettle
    \/ BackoffElapsed
    \/ LimitedSessionOver
    \/ LimitedWebhook
    \/ LimitedWebhookOver
    \/ WindowReset

SpecLimiter == InitLimiter /\ [][NextLimiter]_vars

\* the last answer given to the client, once a first one is on record
LastStatus ==
    IF limiter.route = "session" THEN h.resp.status ELSE wh.resp.status
Repeated ==
    /\ limiter.first # 0
    /\ \/ limiter.route = "session" /\ h.pc = "done"
       \/ limiter.route = "webhook" /\ wh.pc = "done"

\* C16 as stated: the response to a request depends only on the request, the
\* configuration and the processor's answers to its own calls; so a client
\* that repeats a request, with the processor answering alike, gets the status
\* its first request got.
C16_SameRequestSameStatus == Repeated => LastStatus = limiter.first

\* C16 as amended: the same holds in the function deployment, and in the
\* long-running server as long as the client's count in the rate limiter's
\* window is within the limit (100 session-create requests, 1000 webhooks);
\* the request that exceeds it, and only that, is answered 429.
C16_SameStatusUnlessLimited ==
    Repeated =>
        /\ (LastStatus = 429) <=>
              /\ limiter.target = "server"
              /\ limiter.hits > (IF limiter.route = "session" THEN 100 ELSE 1000)
        /\ LastStatus # 429 => LastStatus = limiter.first

C16_Witness ==
    /\ limiter.route = "session" /\ limiter.target = "server"
    /\ h.pc = "done" /\ h.resp.status = 429
    /\ limiter.first = 200 /\ limiter.hits = 101

\* ------------------------------------------------------------------------
\* The server over a sequence of requests of every kind, one after the other.
\* ------------------------------------------------------------------------
InitServer ==
    /\ config \in [apiKey : {"", "sk_live"}, nodeEnv : {"production"},
                   webhookSecret : WebhookSecrets, verifyWebhooks : {"unset"}]
    /\ h = IdleHandler
    /\ proc = IdleProc
    /\ rx = IdleRetry
    /\ fnPlan = IdlePlan
    /\ wh = IdleWebhook
    /\ limiter = IdleLimiter
    /\ served = "none"

HowEnded(resp) == IF resp.status >= 400 THEN "failed" ELSE "ok"

\* the response of a session, charge or status request has been sent
ServedRequestOver ==
    /\ h.pc = "done"
    /\ h' = IdleHandler
    /\ proc' = IdleProc
    /\ served' = HowEnded(h.resp)
    /\ UNCHANGED <<rx, fnPlan, config, wh, limiter>>

\* the response of a webhook has been sent
ServedWebhookOver ==
    /\ wh.pc = "done"
    /\ wh' = IdleWebhook
    /\ served' = HowEnded(wh.resp)
    /\ UNCHANGED <<rx, fnPlan, config, h, proc, limiter>>

NextServer ==
    \/ ReceiveSession
    \/ ReceiveCharge
    \/ ReceiveStatus
    \/ StatusSettle
    \/ SessionSend
    \/ ChargeSend
    \/ SessionSettle
    \/ ChargeSettle
    \/ BackoffElapsed
    \/ ProcessorSilent
    \/ ServedRequestOver
    \/ ReceiveWebhookServer
    \/ ReceiveWebhookVercel
    \/ ServedWebhookOver

SpecServer == InitServer /\ [][NextServer]_vars

HttpStatuses == 200..599

\* C18: no request failure ends the process.  Every request that ends, with
\* whatever error, has got a response with an HTTP status, and after a failed
\* request the server is back where it takes the next request of any kind.
C18_FailureLeavesServerUp ==
    /\ h.pc = "done" => h.resp.status \in HttpStatuses
    /\ wh.pc = "done" => wh.resp.status \in HttpStatuses
    /\ (served = "failed" /\ h.pc = "idle" /\ wh.pc = "idle") =>
          /\ ENABLED ReceiveSession
          /\ ENABLED ReceiveCharge
          /\ ENABLED ReceiveStatus
          /\ ENABLED ReceiveWebhookServer

C18_Witness ==
    /\ served = "failed"
    /\ h.pc = "done" /\ h.endpoint = "charge" /\ h.resp.status = 200

\* ------------------------------------------------------------------------
\* Claims about the webhook receiver
\* ------------------------------------------------------------------------
VerificationOn == config.webhookSecret # "" /\ config.verifyWebhooks # "false"
PassedSignatureCheck == wh.verdict \in {"true", "skipped"}
ExactSignature == Header(HexEncode(Hmac(config.webhookSecret, wh.text)))

\* C4: with a secret configured and verification not disabled, a webhook is
\* dispatched to an event handler, or acknowledged with 200, only if its
\* signature header equals the hex HMAC of the request body under the secret.
C4_OnlyExactSignatureAccepted ==
    (VerificationOn /\ wh.pc = "done"
        /\ (wh.handler # "none" \/ wh.resp.status = 200)) =>
        wh.sig = ExactSignature

\* C5: with a secret configured and verification not disabled, a request whose
\* signature header is missing, of the wrong length, or matches no digest of
\* the body is refused by the verifier without a fault and answered 401.
SignatureCannotMatch ==
    \/ ~wh.sig.present
    \/ HexDecode(wh.sig.chars) \notin
          {Hmac(config.webhookSecret, wh.text),
           Hmac(config.webhookSecret, Reserialized(wh.text))}

C5_BadSignatureAnswered401 ==
    (VerificationOn /\ wh.pc = "done" /\ wh.ctype = "application/json"
        /\ WellFormed(wh.text) /\ SignatureCannotMatch) =>
        /\ wh.verdict = "false"
        /\ wh.resp.status = 401

\* C6: a webhook that passed the signature check and carries an eventType (one
\* of the five known ones or any other string) and a payment id is answered 200
\* with received = true and the same eventType and payment id.
C6_AcknowledgedWithEcho ==
    (wh.pc = "done" /\ PassedSignatureCheck /\ wh.ctype = "application/json"
        /\ wh.text.form = "object"
        /\ Has(wh.text.ev, "eventType") /\ Has(wh.text.ev, "payment")) =>
        /\ wh.resp.status = 200
        /\ wh.resp.received
        /\ wh.resp.eventType = wh.text.ev.eventType
        /\ wh.resp.paymentId = wh.text.ev.payment.id

\* C19: with no webhook secret configured, a webhook carrying an event is
\* accepted whatever its signature header is, a missing one included, and the
\* event is dispatched and acknowledged with 200.
C19_FailOpenAcknowledged ==
    (config.webhookSecret = "" /\ wh.pc = "done" /\ wh.ctype = "application/json"
        /\ wh.text.form = "object" /\ Has(wh.text.ev, "eventType")
        /\ Has(wh.text.ev, "payment")) =>
        /\ PassedSignatureCheck
        /\ wh.handler = HandlerFor(wh.text.ev.eventType)
        /\ wh.resp.status = 200

\* C28: in the long-running server the signature is checked before the body is
\* parsed and before any handler runs: a request with an invalid signature and
\* a malformed JSON body is answered 401, and 400 is answered only for a
\* malformed body that passed (or skipped) the signature check.
C28_SignatureBeforeParse ==
    (wh.pc = "done" /\ wh.target = "server") =>
        /\ (wh.parsed \/ wh.handler # "none") => PassedSignatureCheck
        /\ (VerificationOn /\ wh.ctype = "application/json"
                /\ ~WellFormed(wh.text) /\ SignatureCannotMatch) =>
              wh.resp.status = 401
        /\ wh.resp.status = 400 =>
              ~WellFormed(wh.text) /\ PassedSignatureCheck

\* C7: once the signature check and the JSON parse of a webhook have succeeded
\* the response is 200, also when an event handler faults.
C7_AlwaysAcknowledged ==
    (wh.pc = "done" /\ PassedSignatureCheck /\ wh.parsed) => wh.resp.status = 200

====
